---- MODULE Spec2Model ----
(***************************************************************************)
(* Model of the address-book assistant: src/adress_book/book.py (fields,   *)
(* Record, AddressBook, the input_error decorator) and                     *)
(* src/adress_book/handler_functions.py (the command handlers), driven by  *)
(* the dispatch loop of src/main.py.                                       *)
(*                                                                         *)
(* Text is a sequence of characters; a character is a one-character        *)
(* string, or the name of a code point ("<U+00B2>", SUPERSCRIPT TWO).      *)
(* Text that is only ever printed (the responses) is a TLA+ string, built  *)
(* by concatenation as the f-strings and joins of the code build it.       *)
(***************************************************************************)
EXTENDS Integers, Sequences, FiniteSets, TLC

\* data:     AddressBook.data, in insertion order: <<[key, rec]>>, rec a Record
\*           [name, phones, birthday]; phones the values of its Phone
\*           objects, birthday <<>> (None) or <<value>>.
\* pc:       "idle" when the loop waits for a command, "done" when a call
\*           has returned (or raised) and its result is at hand.
\* op, self, args: the call: the command or method, the key of the Record a
\*           method was called on (<<>> for a handler), the arguments.
\* response: <<>> (None) or <<text>>: what the call returned.
\* raised:   "none", or the exception the call let out.
\* today:    <<>>, or <<date>>: what datetime.today().date() gave the call.
\* upcoming: the list `upcoming` that get_incoming_birthdays built, when it
\*           ran to its return statement.
VARIABLES data, pc, op, self, args, response, raised, today, upcoming

vars == <<data, pc, op, self, args, response, raised, today, upcoming>>

(***************************************************************************)
(* Bounds of the model and constants of the program.                       *)
(***************************************************************************)
\* The longest phone list a Record of the model holds.
MaxPhones == 3

\* len(value) != 10 in Phone.__init__.
PhoneLen == 10
\* timedelta(days=7) in get_incoming_birthdays.
WindowDays == 7
\* birthday.weekday() >= 5: Saturday.
Saturday == 5
\* days_to_monday = 7 - birthday.weekday().
WeekLen == 7

(***************************************************************************)
(* Characters and text.                                                    *)
(***************************************************************************)
AsciiDigits == <<"0", "1", "2", "3", "4", "5", "6", "7", "8", "9">>

\* A character for which str.isdecimal() holds (Unicode category Nd); of
\* the characters of the model, the ASCII digits.
IsDecimalChar(c) == \E i \in 1..10 : AsciiDigits[i] = c

\* Characters for which str.isdigit() holds although they are no decimal
\* digits: the superscript digits and their like.
OtherDigitChars == {"<U+00B2>"}

\* str.isdigit() of one character.
IsDigitChar(c) == IsDecimalChar(c) \/ c \in OtherDigitChars

\* str.isdigit(): at least one character, and every character a digit.
StrIsDigit(s) == Len(s) > 0 /\ \A i \in 1..Len(s) : IsDigitChar(s[i])

\* int() of one decimal character.
DigitVal(c) == (CHOOSE i \in 1..10 : AsciiDigits[i] = c) - 1

\* int() of decimal text.
RECURSIVE IntOf(_)
IntOf(s) ==
    IF Len(s) = 0 THEN 0
    ELSE 10 * IntOf(SubSeq(s, 1, Len(s) - 1)) + DigitVal(s[Len(s)])

\* "".join of the characters of a text: the text as it is printed.
RECURSIVE Cat(_)
Cat(s) == IF Len(s) = 0 THEN "" ELSE s[1] \o Cat(Tail(s))

\* sep.join(parts), parts being printed text.
RECURSIVE Join(_, _)
Join(sep, parts) ==
    IF Len(parts) = 0 THEN ""
    ELSE IF Len(parts) = 1 THEN parts[1]
    ELSE parts[1] \o sep \o Join(sep, Tail(parts))

\* The text of exactly 10 decimal digits: the Phone format of the data model.
IsTenDecimalDigits(s) ==
    Len(s) = PhoneLen /\ \A i \in 1..Len(s) : IsDecimalChar(s[i])

(***************************************************************************)
(* Calendar dates, as datetime.date computes them (proleptic Gregorian).   *)
(***************************************************************************)
IsLeap(y) == y % 4 = 0 /\ (y % 100 # 0 \/ y % 400 = 0)

DaysInMonth(y, m) ==
    IF m = 2 THEN (IF IsLeap(y) THEN 29 ELSE 28)
    ELSE IF m \in {4, 6, 9, 11} THEN 30 ELSE 31

DaysBeforeYear(y) ==
    LET p == y - 1 IN p * 365 + (p \div 4) - (p \div 100) + (p \div 400)

RECURSIVE DaysBeforeMonth(_, _)
DaysBeforeMonth(y, m) ==
    IF m = 1 THEN 0 ELSE DaysBeforeMonth(y, m - 1) + DaysInMonth(y, m - 1)

\* date.toordinal(): 1 is 01.01.0001.
ToOrdinal(d) == DaysBeforeYear(d.y) + DaysBeforeMonth(d.y, d.m) + d.d

\* date.fromordinal().
FromOrdinal(n) ==
    LET y == CHOOSE yy \in (n \div 366)..((n \div 365) + 1) :
                 DaysBeforeYear(yy) < n /\ n <= DaysBeforeYear(yy + 1)
        r == n - DaysBeforeYear(y)
        m == CHOOSE mm \in 1..12 :
                 DaysBeforeMonth(y, mm) < r
                 /\ r <= DaysBeforeMonth(y, mm) + DaysInMonth(y, mm)
    IN  [y |-> y, m |-> m, d |-> r - DaysBeforeMonth(y, m)]

\* date.weekday(): Monday is 0, Sunday is 6.
Weekday(d) == (ToOrdinal(d) + 6) % 7

\* date + timedelta(days=n).
AddDays(d, n) == FromOrdinal(ToOrdinal(d) + n)

DateLess(a, b) == ToOrdinal(a) < ToOrdinal(b)
DateLeq(a, b) == ToOrdinal(a) <= ToOrdinal(b)

\* Whether date(y, m, d) is a date: the constructor raises ValueError otherwise.
IsDate(y, m, d) ==
    y \in 1..9999 /\ m \in 1..12 /\ d >= 1 /\ d <= DaysInMonth(y, m)

\* date.replace(year=y): raises ValueError when the day does not exist in y.
ReplaceYearOk(d, y) == IsDate(y, d.m, d.d)
ReplaceYear(d, y) == [d EXCEPT !.y = y]

\* Zero-padded decimal text of n, width w.
RECURSIVE Pad(_, _)
Pad(n, w) ==
    IF w = 0 THEN <<>> ELSE Pad(n \div 10, w - 1) \o <<AsciiDigits[(n % 10) + 1]>>

\* date.strftime("%d.%m.%Y"), for a year of four digits.
Strftime(d) == Pad(d.d, 2) \o <<".">> \o Pad(d.m, 2) \o <<".">> \o Pad(d.y, 4)

\* The positions of the "." characters of a text.
DotPositions(s) == {i \in 1..Len(s) : s[i] = "."}

AllDecimal(s) == \A i \in 1..Len(s) : IsDecimalChar(s[i])

\* The directive %d of strptime: 3[0-1]|[1-2]\d|0[1-9]|[1-9]| [1-9].
MatchesDay(s) ==
    \/ Len(s) = 2 /\ AllDecimal(s) /\ IntOf(s) \in 1..31
    \/ Len(s) = 1 /\ AllDecimal(s) /\ IntOf(s) \in 1..9
    \/ Len(s) = 2 /\ s[1] = " " /\ IsDecimalChar(s[2]) /\ DigitVal(s[2]) \in 1..9

\* The directive %m of strptime: 1[0-2]|0[1-9]|[1-9].
MatchesMonth(s) ==
    \/ Len(s) = 2 /\ AllDecimal(s) /\ IntOf(s) \in 1..12
    \/ Len(s) = 1 /\ AllDecimal(s) /\ IntOf(s) \in 1..9

\* The directive %Y of strptime: \d\d\d\d.
MatchesYear(s) == Len(s) = 4 /\ AllDecimal(s)

DayOf(s) == IF s[1] = " " THEN DigitVal(s[2]) ELSE IntOf(s)

\* datetime.strptime(s, "%d.%m.%Y"): the three fields between the two dots,
\* each matching its directive, and the fields a date.
StrptimeFields(s) ==
    LET dots == DotPositions(s)
        i == CHOOSE p \in dots : \A q \in dots : p <= q
        j == CHOOSE p \in dots : \A q \in dots : q <= p
    IN  [dd |-> SubSeq(s, 1, i - 1),
         mm |-> SubSeq(s, i + 1, j - 1),
         yy |-> SubSeq(s, j + 1, Len(s))]

StrptimeOk(s) ==
    /\ Cardinality(DotPositions(s)) = 2
    /\ LET f == StrptimeFields(s)
       IN  /\ MatchesDay(f.dd) /\ MatchesMonth(f.mm) /\ MatchesYear(f.yy)
           /\ IsDate(IntOf(f.yy), IntOf(f.mm), DayOf(f.dd))

Strptime(s) ==
    LET f == StrptimeFields(s)
    IN  [y |-> IntOf(f.yy), m |-> IntOf(f.mm), d |-> DayOf(f.dd)]

(***************************************************************************)
(* Outcomes of a call: it returns ret (<<>> is None) or raises exc with    *)
(* str(err) = msg; st is the object it worked on, as the call left it.     *)
(***************************************************************************)
Returns(ret, st) == [exc |-> "none", msg |-> "", ret |-> ret, st |-> st]
Raises(exc, msg, st) == [exc |-> exc, msg |-> msg, ret |-> <<>>, st |-> st]

\* The decorator input_error: what the wrapped call returns for each exception.
InputErrorText(exc, msg) ==
    CASE exc = "ValueError" -> "Provide name and phone please."
      [] exc = "KeyError"   -> "Contact not found."
      [] exc = "IndexError" -> "Not enough arguments."
      [] OTHER              -> "Error: " \o msg

\* input_error without its last clause, `except Exception`: a TypeError
\* passes through.
input_error_NoCatchAll(o) ==
    IF o.exc \in {"none", "TypeError"} THEN o
    ELSE Returns(<<InputErrorText(o.exc, o.msg)>>, o.st)

\* input_error with IndexError answered as ValueError is.
input_error_IndexAsValue(o) ==
    IF o.exc = "none" THEN o
    ELSE Returns(<<InputErrorText(IF o.exc = "IndexError" THEN "ValueError" ELSE o.exc,
                                  o.msg)>>, o.st)

\* input_error: the wrapped call returns a text for every exception.
input_error(o) ==
    IF o.exc = "none" THEN o
    ELSE Returns(<<InputErrorText(o.exc, o.msg)>>, o.st)

(***************************************************************************)
(* Fields.                                                                 *)
(***************************************************************************)
\* Phone.__init__: the exception it raises, "none" when it accepts value.
PhoneInit(value) ==
    IF Len(value) # PhoneLen
    THEN Raises("ValueError", "The lenth of the telephon number must be 10 numbers.", value)
    ELSE IF ~StrIsDigit(value)
    THEN Raises("ValueError", "Value must consist of numbers.", value)
    ELSE Returns(<<>>, value)

\* Birthday.__init__.
BirthdayInit(value) ==
    IF ~StrptimeOk(value)
    THEN Raises("ValueError", "Invalid date format. Use DD.MM.YYYY", value)
    ELSE Returns(<<>>, value)

\* Birthday.date.
BirthdayDate(value) == Strptime(value)

(***************************************************************************)
(* Record.                                                                 *)
(***************************************************************************)
\* Record.__init__.
NewRecord(name) == [name |-> name, phones |-> <<>>, birthday |-> <<>>]

\* list.remove of the element at index i.
RemoveAt(s, i) == SubSeq(s, 1, i - 1) \o SubSeq(s, i + 1, Len(s))

\* Record.find_phone: the index of the first Phone whose value is phone, 0
\* for None.
FindPhone(phones, phone) ==
    IF \E i \in 1..Len(phones) : phones[i] = phone
    THEN CHOOSE i \in 1..Len(phones) :
             phones[i] = phone /\ \A j \in 1..(i - 1) : phones[j] # phone
    ELSE 0

\* Record.add_phone, decorated.
RecordAddPhone(rec, phone) ==
    input_error(
        LET p == PhoneInit(phone)
        IN  IF p.exc # "none" THEN Raises(p.exc, p.msg, rec)
            ELSE Returns(<<>>, [rec EXCEPT !.phones = Append(@, phone)]))

\* Record.add_birthday, decorated.
RecordAddBirthday(rec, value) ==
    input_error(
        LET b == BirthdayInit(value)
        IN  IF b.exc # "none" THEN Raises(b.exc, b.msg, rec)
            ELSE Returns(<<>>, [rec EXCEPT !.birthday = <<value>>]))

\* Record.remove_phone, decorated: list.remove(None) raises ValueError.
RecordRemovePhone(rec, phone) ==
    input_error(
        LET find == FindPhone(rec.phones, phone)
        IN  IF find = 0
            THEN Raises("ValueError", "list.remove(x): x not in list", rec)
            ELSE Returns(<<>>, [rec EXCEPT !.phones = RemoveAt(@, find)]))

\* edit_phone removing every occurrence of old_phone.
RecordEditPhone_RemoveAll(rec, old_phone, new_phone) ==
    input_error(
        IF ~\E i \in 1..Len(rec.phones) : rec.phones[i] = old_phone
        THEN Raises("ValueError", "Old number not found.", rec)
        ELSE LET kept == SelectSeq(rec.phones, LAMBDA p : p # old_phone)
                 p == PhoneInit(new_phone)
             IN  IF p.exc # "none"
                 THEN Raises(p.exc, p.msg, [rec EXCEPT !.phones = kept])
                 ELSE Returns(<<>>, [rec EXCEPT !.phones = Append(kept, new_phone)]))

\* Record.edit_phone, decorated: the old phone is removed before the new one
\* is validated.
RecordEditPhone(rec, old_phone, new_phone) ==
    input_error(
        IF ~\E i \in 1..Len(rec.phones) : rec.phones[i] = old_phone
        THEN Raises("ValueError", "Old number not found.", rec)
        ELSE LET removed == RecordRemovePhone(rec, old_phone).st
                 p == PhoneInit(new_phone)
             IN  IF p.exc # "none" THEN Raises(p.exc, p.msg, removed)
                 ELSE Returns(<<>>, [removed EXCEPT !.phones = Append(@, new_phone)]))

\* Record.__str__.
RecordStr(rec) ==
    LET phones == Join("; ", [i \in 1..Len(rec.phones) |-> Cat(rec.phones[i])])
    IN  IF rec.birthday # <<>>
        THEN "Contact name: " \o Cat(rec.name) \o ", phones: " \o phones
             \o ", birthday: " \o Cat(rec.birthday[1])
        ELSE "Contact name: " \o Cat(rec.name) \o ", phones: " \o phones

(***************************************************************************)
(* AddressBook.                                                            *)
(***************************************************************************)
\* AddressBook.find: data.get(name), as the index of the entry, 0 for None.
Find(book, name) ==
    IF \E i \in 1..Len(book) : book[i].key = name
    THEN CHOOSE i \in 1..Len(book) : book[i].key = name
    ELSE 0

\* AddressBook.add_record: data[record.name.value] = record; a dict keeps a
\* key that is already there in its place and puts a new key last.
AddRecord(book, record) ==
    LET i == Find(book, record.name)
    IN  IF i = 0 THEN Append(book, [key |-> record.name, rec |-> record])
        ELSE [book EXCEPT ![i].rec = record]

\* The congratulation day computed with 6 - weekday.
CongDay_SixMinusWeekday(birthday) ==
    IF Weekday(birthday) >= Saturday
    THEN AddDays(birthday, (WeekLen - 1) - Weekday(birthday))
    ELSE birthday

\* The congratulation day of get_incoming_birthdays: a birthday on a
\* Saturday or Sunday moves to the Monday after it.
CongDay(birthday) ==
    IF Weekday(birthday) >= Saturday
    THEN AddDays(birthday, WeekLen - Weekday(birthday))
    ELSE birthday

\* The loop of get_incoming_birthdays over data.items() from entry i on, with
\* the list built so far: the list at the return statement, or the ValueError
\* of date.replace.
RECURSIVE BirthdayLoop(_, _, _, _)
BirthdayLoop(book, i, now, acc) ==
    IF i > Len(book) THEN Returns(<<>>, acc)
    ELSE IF book[i].rec.birthday = <<>> THEN BirthdayLoop(book, i + 1, now, acc)
    ELSE
      LET born == BirthdayDate(book[i].rec.birthday[1])
      IN  IF ~ReplaceYearOk(born, now.y)
          THEN Raises("ValueError", "day is out of range for month", acc)
          ELSE
            LET thisYear == ReplaceYear(born, now.y)
                passed == DateLess(thisYear, now)
            IN  IF passed /\ ~ReplaceYearOk(thisYear, now.y + 1)
                THEN Raises("ValueError", "day is out of range for month", acc)
                ELSE
                  LET birthday == IF passed THEN ReplaceYear(thisYear, now.y + 1)
                                  ELSE thisYear
                      cong_day == CongDay(birthday)
                  IN  IF DateLeq(now, birthday)
                         /\ DateLeq(birthday, AddDays(now, WindowDays))
                      THEN BirthdayLoop(book, i + 1, now,
                               Append(acc, [name |-> book[i].key,
                                            birthday |-> Strftime(cong_day)]))
                      ELSE BirthdayLoop(book, i + 1, now, acc)

\* The text get_incoming_birthdays returns for the list it built.
UpcomingText(list) ==
    Join("\n", [k \in 1..Len(list) |->
        Cat(list[k].name) \o " <U+2014> congratulate day: " \o Cat(list[k].birthday)])

\* AddressBook.get_incoming_birthdays, decorated: a str in either case; st is
\* the list `upcoming` when the loop ran to its end, <<>> when it raised.
GetIncomingBirthdays(book, now) ==
    LET loop == BirthdayLoop(book, 1, now, <<>>)
    IN  input_error(
            IF loop.exc # "none" THEN Raises(loop.exc, loop.msg, <<>>)
            ELSE Returns(<<UpcomingText(loop.st)>>, loop.st))

\* AddressBook.__str__ is not used by the handlers; handler_all prints each
\* record with str(record).

(***************************************************************************)
(* Command handlers: each the decorated function, from (args, book) to the *)
(* outcome; st is book.data as the handler left it.                        *)
(***************************************************************************)
handler_hello(a, book) == input_error(Returns(<<"How can I help you?">>, book))

\* record.add_phone(phone) on the record of entry i.
WithPhoneAdded(book, i, phone) ==
    [book EXCEPT ![i].rec = RecordAddPhone(book[i].rec, phone).st]

\* handler_add without the test `record is None`: a new Record every time.
handler_add_AlwaysNewRecord(a, book) ==
    input_error(
        IF Len(a) < 2
        THEN Raises("ValueError", "not enough values to unpack", book)
        ELSE
          LET name == a[1]
              phone == a[2]
              book1 == AddRecord(book, NewRecord(name))
              i == Find(book1, name)
          IN  Returns(<<"Contact added.">>,
                      IF phone # <<>> THEN WithPhoneAdded(book1, i, phone) ELSE book1))

\* handler_add: the unpacking of args raises ValueError for fewer than two
\* tokens; record.add_phone never raises (it is decorated too).
handler_add(a, book) ==
    input_error(
        IF Len(a) < 2
        THEN Raises("ValueError", "not enough values to unpack", book)
        ELSE
          LET name == a[1]
              phone == a[2]
              found == Find(book, name)
              book1 == IF found = 0 THEN AddRecord(book, NewRecord(name)) ELSE book
              message == IF found = 0 THEN "Contact added." ELSE "Contact update."
              i == Find(book1, name)
          IN  Returns(<<message>>,
                      IF phone # <<>> THEN WithPhoneAdded(book1, i, phone) ELSE book1))

handler_change(a, book) ==
    input_error(
        IF Len(a) < 3
        THEN Raises("ValueError", "not enough values to unpack", book)
        ELSE
          LET i == Find(book, a[1])
          IN  IF i = 0 THEN Returns(<<"Contact not found.">>, book)
              ELSE Returns(<<"Contact updated.">>,
                       [book EXCEPT ![i].rec = RecordEditPhone(@, a[2], a[3]).st]))

handler_phone(a, book) ==
    input_error(
        IF Len(a) < 1
        THEN Raises("IndexError", "list index out of range", book)
        ELSE
          LET i == Find(book, a[1])
          IN  IF i = 0 THEN Returns(<<"Contact not found.">>, book)
              ELSE
                LET ph == book[i].rec.phones
                IN  Returns(<<Cat(a[1]) \o ": "
                               \o Join("; ", [k \in 1..Len(ph) |-> Cat(ph[k])])>>,
                            book))

handler_add_birthday(a, book) ==
    input_error(
        IF Len(a) < 2 THEN Returns(<<"Enter name and birthday.">>, book)
        ELSE
          LET i == Find(book, a[1])
          IN  IF i = 0 THEN Returns(<<"Contact not found.">>, book)
              ELSE Returns(<<"Birthday added.">>,
                       [book EXCEPT ![i].rec = RecordAddBirthday(@, a[2]).st]))

handler_show_birthday(a, book) ==
    input_error(
        IF Len(a) = 0 THEN Returns(<<"Enter a name pleace.">>, book)
        ELSE
          LET i == Find(book, a[1])
          IN  IF i = 0 THEN Returns(<<"Contact not found.">>, book)
              ELSE IF book[i].rec.birthday = <<>>
              THEN Returns(<<Cat(a[1]) \o " has no birthday saved.">>, book)
              ELSE Returns(<<Cat(a[1]) \o "'s birthday: "
                              \o Cat(book[i].rec.birthday[1])>>, book))

\* handler_birthdays for what get_incoming_birthdays returned: it returns a
\* str, so the loop `for person in birthdays` runs over its characters and
\* person['name'] raises TypeError on the first of them.
handler_birthdays(a, book, now) ==
    input_error(
        LET birthdays == GetIncomingBirthdays(book, now).ret[1]
        IN  IF birthdays = ""
            THEN Returns(<<"There are no birthdays in the next 7 days.">>, book)
            ELSE Raises("TypeError", "string indices must be integers, not 'str'", book))

handler_all(a, book) ==
    input_error(
        IF Len(book) = 0 THEN Returns(<<"No contacts saved.">>, book)
        ELSE Returns(<<Join("\n", [k \in 1..Len(book) |->
                          Cat(book[k].key) \o ": " \o RecordStr(book[k].rec)])>>, book))

handler_goodbye(a, book) == input_error(Returns(<<"Good bye!">>, book))

(***************************************************************************)
(* The inputs of the model.                                                *)
(***************************************************************************)
Jane == <<"J", "a", "n", "e">>
Bob == <<"B", "o", "b">>
Names == {Jane, Bob}

\* Ten ASCII digits; nine ASCII digits and SUPERSCRIPT TWO; ten characters
\* with a letter among them; the empty text (its length is not 10).
PhoneAscii == <<"4", "3", "6", "5", "4", "6", "4", "5", "6", "3">>
PhoneSuper == <<"2", "8", "2", "8", "2", "8", "2", "8", "2", "<U+00B2>">>
PhoneLetter == <<"4", "3", "6", "5", "4", "a", "4", "5", "6", "3">>
Empty == <<>>
PhoneTexts == {PhoneAscii, PhoneSuper, PhoneLetter, Empty}
FewPhoneTexts == {PhoneAscii, PhoneLetter}

Date(d, m, y) == [y |-> y, m |-> m, d |-> d]

\* Monday 10.06.2024, Saturday 08.06.2024, Sunday 28.12.2025.
Monday10June == Date(10, 6, 2024)
Saturday8June == Date(8, 6, 2024)
Sunday28Dec == Date(28, 12, 2025)
Todays == {Monday10June, Saturday8June, Sunday28Dec}
OneToday == {Monday10June}

\* Birthdays: a Saturday of June 2024, the 10th, 17th and 18th of June of
\* other years, the 2nd of January, the 29th of February; and text that is
\* no date (the 31st of April), text that is no birthday at all.
Bd15June == Strftime(Date(15, 6, 2024))
Bd10June == Strftime(Date(10, 6, 1990))
Bd17June == Strftime(Date(17, 6, 1985))
Bd18June == Strftime(Date(18, 6, 2001))
Bd2Jan == Strftime(Date(2, 1, 2000))
Bd29Feb == Strftime(Date(29, 2, 2024))
Bd31April == <<"3", "1", ".", "0", "4", ".", "2", "0", "2", "4">>
BirthdayTexts == {Bd15June, Bd10June, Bd17June, Bd18June, Bd2Jan, Bd29Feb, Bd31April, Jane}
FewBirthdayTexts == {Bd15June, Bd31April}

(***************************************************************************)
(* The state machine: the loop of main() takes a command, calls its        *)
(* handler and prints what it returned; a Record of the book may also be   *)
(* called directly (add_phone, edit_phone, remove_phone).                  *)
(***************************************************************************)
Init ==
    /\ data = <<>>
    /\ pc = "idle"
    /\ op = ""
    /\ self = <<>>
    /\ args = <<>>
    /\ response = <<>>
    /\ raised = "none"
    /\ today = <<>>
    /\ upcoming = <<>>

\* The phone lists stay within the bound of the model.
WithinBound(book) ==
    \A i \in 1..Len(book) : Len(book[i].rec.phones) <= MaxPhones

\* A handler was called with a and ended with outcome o.
Called(name, a, o) ==
    /\ pc = "idle"
    /\ WithinBound(o.st)
    /\ pc' = "done"
    /\ op' = name
    /\ self' = <<>>
    /\ args' = a
    /\ data' = o.st
    /\ response' = o.ret
    /\ raised' = o.exc

\* A method of the Record of entry i was called with a and ended with o.
MethodCalled(name, i, a, o) ==
    /\ pc = "idle"
    /\ Len(o.st.phones) <= MaxPhones
    /\ pc' = "done"
    /\ op' = name
    /\ self' = <<data[i].key>>
    /\ args' = a
    /\ data' = [data EXCEPT ![i].rec = o.st]
    /\ response' = o.ret
    /\ raised' = o.exc
    /\ UNCHANGED <<today, upcoming>>

Hello == Called("hello", <<>>, handler_hello(<<>>, data)) /\ UNCHANGED <<today, upcoming>>

Add(a) == Called("add", a, handler_add(a, data)) /\ UNCHANGED <<today, upcoming>>

Change(a) == Called("change", a, handler_change(a, data)) /\ UNCHANGED <<today, upcoming>>

Phone(a) == Called("phone", a, handler_phone(a, data)) /\ UNCHANGED <<today, upcoming>>

AddBirthday(a) ==
    Called("add_birthday", a, handler_add_birthday(a, data)) /\ UNCHANGED <<today, upcoming>>

ShowBirthday(a) ==
    Called("show_birthday", a, handler_show_birthday(a, data)) /\ UNCHANGED <<today, upcoming>>

Birthdays(now) ==
    /\ Called("birthdays", <<>>, handler_birthdays(<<>>, data, now))
    /\ today' = <<now>>
    /\ upcoming' = GetIncomingBirthdays(data, now).st

All == Called("all", <<>>, handler_all(<<>>, data)) /\ UNCHANGED <<today, upcoming>>

Goodbye(name) == Called(name, <<>>, handler_goodbye(<<>>, data)) /\ UNCHANGED <<today, upcoming>>

RecAddPhone(i, phone) ==
    MethodCalled("Record.add_phone", i, <<phone>>, RecordAddPhone(data[i].rec, phone))

RecEditPhone(i, old, new) ==
    MethodCalled("Record.edit_phone", i, <<old, new>>, RecordEditPhone(data[i].rec, old, new))

RecRemovePhone(i, phone) ==
    MethodCalled("Record.remove_phone", i, <<phone>>, RecordRemovePhone(data[i].rec, phone))

\* main(): print(result), and the loop goes on unless the command was close
\* or exit; an exception out of a handler would end the loop.
Printed ==
    /\ pc = "done"
    /\ raised = "none"
    /\ op \notin {"close", "exit"}
    /\ pc' = "idle"
    /\ op' = ""
    /\ self' = <<>>
    /\ args' = <<>>
    /\ response' = <<>>
    /\ today' = <<>>
    /\ upcoming' = <<>>
    /\ UNCHANGED <<data, raised>>

\* The argument lists a command is given: too few tokens, and enough.
ShortArgs == {<<>>} \cup {<<n>> : n \in Names}
Pairs(second) == {<<n, x>> : n \in Names, x \in second}
Triples(phones) == {<<n, x, y>> : n \in Names, x \in phones, y \in phones}

\* The steps of the program with phones, birthdays and dates drawn from the
\* given sets.
NextOver(phones, birthdays, todays) ==
    \/ Hello
    \/ \E a \in ShortArgs \cup Pairs(phones) : Add(a)
    \/ \E a \in ShortArgs \cup Pairs(phones) \cup Triples(phones) : Change(a)
    \/ \E a \in ShortArgs : Phone(a)
    \/ \E a \in ShortArgs \cup Pairs(birthdays) : AddBirthday(a)
    \/ \E a \in ShortArgs : ShowBirthday(a)
    \/ \E now \in todays : Birthdays(now)
    \/ All
    \/ \E name \in {"close", "exit"} : Goodbye(name)
    \/ \E i \in 1..Len(data), p \in phones : RecAddPhone(i, p)
    \/ \E i \in 1..Len(data), old \in phones, new \in phones : RecEditPhone(i, old, new)
    \/ \E i \in 1..Len(data), p \in phones : RecRemovePhone(i, p)
    \/ Printed

\* Every phone text of the model, one birthday, one date.
Next == NextOver(PhoneTexts, FewBirthdayTexts, OneToday)

Spec == Init /\ [][Next]_vars

\* Every birthday text and date of the model, one phone.
NextBirthdays == NextOver(FewPhoneTexts, BirthdayTexts, Todays)

SpecBirthdays == Init /\ [][NextBirthdays]_vars

(***************************************************************************)
(* What the properties below read off a state.                             *)
(***************************************************************************)
\* The Record stored under key.
RecAt(book, key) == book[CHOOSE i \in 1..Len(book) : book[i].key = key].rec

HasKey(book, key) == \E i \in 1..Len(book) : book[i].key = key

Contains(list, x) == \E k \in 1..Len(list) : list[k] = x

\* A call of the named command or method has just been made.
CallOf(name) == pc = "idle" /\ pc' = "done" /\ op' = name

\* list without its first element equal to x.
RECURSIVE WithoutFirst(_, _)
WithoutFirst(list, x) ==
    IF Len(list) = 0 THEN <<>>
    ELSE IF Head(list) = x THEN Tail(list)
    ELSE <<Head(list)>> \o WithoutFirst(Tail(list), x)

\* The tokens each command requires.
Required(name) ==
    CASE name = "add" -> 2
      [] name = "change" -> 3
      [] name = "phone" -> 1
      [] name = "add_birthday" -> 2
      [] name = "show_birthday" -> 1
      [] OTHER -> 0

NeedArgs == {"add", "change", "phone", "add_birthday", "show_birthday"}

\* The next occurrence of a birthday for a given today: its month and day in
\* today's year, or in the year after when that day is before today.
NextOccurrence(born, now) ==
    LET thisYear == [y |-> now.y, m |-> born.m, d |-> born.d]
    IN  IF ToOrdinal(thisYear) < ToOrdinal(now)
        THEN [y |-> now.y + 1, m |-> born.m, d |-> born.d]
        ELSE thisYear

DaysFrom(now, d) == ToOrdinal(d) - ToOrdinal(now)

IsFeb29(born) == born.m = 2 /\ born.d = 29

\* The Records of the book whose birthday's next occurrence lies in the
\* 7-day window, in the order of the book.
Qualifying(book, now) ==
    SelectSeq(book, LAMBDA e :
        /\ e.rec.birthday # <<>>
        /\ DaysFrom(now, NextOccurrence(Strptime(e.rec.birthday[1]), now)) \in 0..7)

\* The day to congratulate on, for a next occurrence: the Monday after a
\* Saturday or Sunday.
Congratulation(next) ==
    IF Weekday(next) = 5 THEN AddDays(next, 2)
    ELSE IF Weekday(next) = 6 THEN AddDays(next, 1)
    ELSE next

Listed(list, key) == \E k \in 1..Len(list) : list[k].name = key

(***************************************************************************)
(* C1: edit_phone(old_text, new_text) on a Record whose phone list         *)
(* contains old_text, with a new_text that is not exactly 10 decimal       *)
(* digits, leaves the phone list as it was.                                *)
(***************************************************************************)
C1_InvalidNewTextLeavesPhones ==
    [][(/\ CallOf("Record.edit_phone")
        /\ Contains(RecAt(data, self'[1]).phones, args'[1])
        /\ ~IsTenDecimalDigits(args'[2]))
       => RecAt(data', self'[1]).phones = RecAt(data, self'[1]).phones]_vars

(***************************************************************************)
(* C2: every element of every Record's phone list is text of exactly 10    *)
(* characters, all decimal digits.                                         *)
(***************************************************************************)
C2_PhonesAreTenDecimalDigits ==
    \A i \in 1..Len(data) : \A k \in 1..Len(data[i].rec.phones) :
        IsTenDecimalDigits(data[i].rec.phones[k])

(***************************************************************************)
(* C3: every command handler, for every book and every argument list,      *)
(* returns a text and lets no exception out.                               *)
(***************************************************************************)
Commands ==
    {"hello", "add", "change", "phone", "add_birthday", "show_birthday",
     "birthdays", "all", "close", "exit"}

C3_HandlersReturnText ==
    (pc = "done" /\ op \in Commands)
        => raised = "none" /\ Len(response) = 1 /\ response[1] \in STRING

\* A handler whose body raised an exception that only the last clause of
\* input_error catches.
C3_Witness ==
    /\ pc = "done" /\ op = "birthdays" /\ raised = "none"
    /\ response = <<"Error: string indices must be integers, not 'str'">>

(***************************************************************************)
(* C4 as stated: a handler given fewer tokens than it requires returns     *)
(* "Not enough arguments." and leaves the book unchanged.                  *)
(***************************************************************************)
C4_TooFewTokensNotEnoughArguments ==
    [][(pc = "idle" /\ pc' = "done" /\ op' \in NeedArgs /\ Len(args') < Required(op'))
       => response' = <<"Not enough arguments.">> /\ data' = data]_vars

\* The text each handler returns when it is given too few tokens.
TooFewText(name) ==
    CASE name = "phone" -> "Not enough arguments."
      [] name \in {"add", "change"} -> "Provide name and phone please."
      [] name = "add_birthday" -> "Enter name and birthday."
      [] name = "show_birthday" -> "Enter a name pleace."

(***************************************************************************)
(* C4 as amended: a handler given fewer tokens than it requires returns a  *)
(* fixed text of its own ("Not enough arguments." for phone, "Provide name *)
(* and phone please." for add and change, "Enter name and birthday." for   *)
(* add_birthday, "Enter a name pleace." for show_birthday), raises nothing *)
(* and leaves the book unchanged.                                          *)
(***************************************************************************)
C4_TooFewTokensFixedText ==
    [][(pc = "idle" /\ pc' = "done" /\ op' \in NeedArgs /\ Len(args') < Required(op'))
       => /\ response' = <<TooFewText(op')>>
          /\ raised' = "none"
          /\ data' = data]_vars

C4_Witness ==
    /\ pc = "done" /\ op = "phone" /\ args = <<>> /\ Len(data) = 2
    /\ response = <<"Not enough arguments.">>

(***************************************************************************)
(* C5: the birthdays handler returns one line `Congratulate <name> -       *)
(* <date>` (with an em dash) per Record whose birthday's next occurrence   *)
(* lies in the 7-day window, in the order of the book, and the fixed       *)
(* message when there is none.                                             *)
(***************************************************************************)
C5_BirthdaysOneLinePerRecord ==
    (pc = "done" /\ op = "birthdays") =>
        LET q == Qualifying(data, today[1])
        IN  response =
              IF Len(q) = 0 THEN <<"There are no birthdays in the next 7 days.">>
              ELSE <<Join("\n", [k \in 1..Len(q) |->
                       "Congratulate " \o Cat(q[k].key) \o " <U+2014> "
                       \o Cat(Strftime(Congratulation(
                              NextOccurrence(Strptime(q[k].rec.birthday[1]), today[1]))))])>>

(***************************************************************************)
(* C6: in the upcoming-birthdays computation a Record with a birthday that *)
(* is not a 29th of February is included if and only if today <=           *)
(* next_occurrence <= today + 7 days; a Record without a birthday is never *)
(* included.                                                               *)
(***************************************************************************)
C6_IncludedIffInWindow ==
    (pc = "done" /\ op = "birthdays") =>
        \A i \in 1..Len(data) :
            LET e == data[i]
            IN  /\ e.rec.birthday = <<>> => ~Listed(upcoming, e.key)
                /\ (e.rec.birthday # <<>> /\ ~IsFeb29(Strptime(e.rec.birthday[1])))
                   => (Listed(upcoming, e.key)
                       <=> DaysFrom(today[1],
                               NextOccurrence(Strptime(e.rec.birthday[1]), today[1]))
                           \in 0..7)

\* The same, for a book in which no birthday is a 29th of February.
C6_WithoutFeb29 ==
    (\A i \in 1..Len(data) :
        data[i].rec.birthday # <<>> => ~IsFeb29(Strptime(data[i].rec.birthday[1])))
    => C6_IncludedIffInWindow

OneRecordPerName ==
    /\ \A i, j \in 1..Len(data) : data[i].key = data[j].key => i = j
    /\ \A i \in 1..Len(data) : data[i].rec.name = data[i].key

C8_AddIsUpsert ==
    /\ []OneRecordPerName
    /\ [][(CallOf("add") /\ Len(args') >= 2 /\ IsTenDecimalDigits(args'[2]))
          => LET name == args'[1]
                 phone == args'[2]
             IN  IF ~HasKey(data, name)
                 THEN /\ response' = <<"Contact added.">>
                      /\ data' = data \o <<[key |-> name,
                                           rec |-> [name |-> name, phones |-> <<phone>>,
                                                    birthday |-> <<>>]]>>
                 ELSE /\ response' = <<"Contact update.">>
                      /\ Len(data') = Len(data)
                      /\ \A i \in 1..Len(data) :
                            /\ data'[i].key = data[i].key
                            /\ data'[i].rec.name = data[i].rec.name
                            /\ data'[i].rec.birthday = data[i].rec.birthday
                            /\ data'[i].rec.phones =
                                 IF data[i].key = name
                                 THEN data[i].rec.phones \o <<phone>>
                                 ELSE data[i].rec.phones]_vars

\* A second add for a name that has a birthday and a phone already, in a
\* book of two Records.
C8_Witness ==
    /\ pc = "done" /\ op = "add" /\ response = <<"Contact update.">>
    /\ Len(data) = 2
    /\ IsTenDecimalDigits(args[2])
    /\ Len(RecAt(data, args[1]).phones) >= 2
    /\ RecAt(data, args[1]).birthday # <<>>

SuccessTexts == {"Contact added.", "Contact update.", "Contact updated.", "Birthday added."}

C10_SuccessOnlyWhenApplied ==
    [][/\ (CallOf("add") /\ response' \in {<<"Contact added.">>, <<"Contact update.">>})
          => RecAt(data', args'[1]).phones =
               (IF HasKey(data, args'[1]) THEN RecAt(data, args'[1]).phones ELSE <<>>)
               \o <<args'[2]>>
       /\ (CallOf("change") /\ response' = <<"Contact updated.">>)
          => RecAt(data', args'[1]).phones =
               WithoutFirst(RecAt(data, args'[1]).phones, args'[2]) \o <<args'[3]>>
             /\ Contains(RecAt(data, args'[1]).phones, args'[2])
       /\ (CallOf("add_birthday") /\ response' = <<"Birthday added.">>)
          => RecAt(data', args'[1]).birthday = <<args'[2]>>
       /\ (/\ pc = "idle" /\ pc' = "done"
           /\ \/ op' = "add" /\ Len(args') >= 2 /\ ~IsTenDecimalDigits(args'[2])
              \/ op' = "change" /\ Len(args') >= 3 /\ HasKey(data, args'[1])
                 /\ (~IsTenDecimalDigits(args'[3])
                     \/ ~Contains(RecAt(data, args'[1]).phones, args'[2]))
              \/ op' = "add_birthday" /\ Len(args') >= 2 /\ HasKey(data, args'[1])
                 /\ ~StrptimeOk(args'[2]))
          => /\ Len(response') = 1 /\ response'[1] \notin SuccessTexts
             /\ data' = data]_vars

====
